---- MODULE Spec2Model ----
(***************************************************************************)
(* Real-time messaging core of toloka-server: the connection registry      *)
(* (Hub), the client sessions with their read and write pumps, and the     *)
(* persisted Conversation / Message / Block / UserPresence rows they use.  *)
(*                                                                         *)
(* Spec          every handler is one step (one frame, one REST call, one  *)
(*               hub case), as a single goroutine executes it.             *)
(* SpecPresence, SpecSend, SpecTyping, SpecBlock, SpecRead, SpecResolve,   *)
(* SpecUnregister, SpecHandshake, SpecFrames, SpecDelete                   *)
(*               the same steps, restricted to the operations that write   *)
(*               the state a property reads.                               *)
(* SpecLifecycle the sessions from registration to teardown, with weak     *)
(*               fairness of the hub loop and of the pumps.                *)
(* SpecRace      handleSendMessage runs statement by statement, so that    *)
(*               the read loops of several sessions interleave between     *)
(*               their database calls.                                     *)
(* SpecStorage   SpecRace with failing database calls.                     *)
(* SpecLock      the hub loop and the fan-outs run statement by statement  *)
(*               around Hub.mutex; SpecLockFair adds weak fairness of the  *)
(*               hub loop and of each fan-out loop.                        *)
(*                                                                         *)
(* Timestamps of Conversation and Message rows (CreatedAt, UpdatedAt) are  *)
(* not modelled; UserPresence.LastSeenAt is, against the clock "now".      *)
(***************************************************************************)
EXTENDS Integers, Sequences, FiniteSets, TLC

\* ---------------------------------------------------------------- bounds
NumUsers == 2
NumClients == 3
\* capacity of Client.Send; the program's value is 256 (ws_service.go:231)
MailboxCap == 2
MaxMessages == 2
MaxConversations == 2
MaxTime == 1
\* sessions and messages of the statement-level runs (SpecRace), sessions of
\* the status runs (SpecRead) and the deletion runs (SpecDelete), of the
\* frame runs (SpecFrames) and of the mutex runs (SpecLock)
RaceClients == 2
RaceMessages == 3
ReadClients == 2
FrameClients == 2
LockClients == 2

Users == 1..NumUsers
Clients == 1..NumClients
Texts == {"Hello"}
TempIDs == {"abc"}

\* models.MessageStatus
MessageStatusSent == "sent"
MessageStatusDelivered == "delivered"
MessageStatusRead == "read"
Statuses == {MessageStatusSent, MessageStatusDelivered, MessageStatusRead}

VARIABLES
    blocks,         \* Block rows: set of <<blocker_id, blocked_id>>
    conversations,  \* Conversation rows: [ID, UserAID, UserBID, LastMessageID] (0 = NULL)
    messages,       \* Message rows: [ID, ConversationID, FromUserID, ToUserID, Text, Status, TempID]
    seq,            \* auto-increment counters: [conv, msg]
    presence,       \* UserPresence row of each user: [exists, IsOnline, LastSeenAt]
    now,            \* time.Now()
    clients,        \* Hub.clients: the live set
    UserID,         \* Client.UserID (0 while the client does not exist)
    Send,           \* Client.Send: buffered events
    closed,         \* Client.Send has been closed
    crashed,        \* the process has panicked (send on a closed channel, double close)
    rp,             \* readPump of each client
    wp,             \* writePump of each client
    ret,            \* the last service call and the error it returned
    hs,             \* handleSendMessage in progress, per client (SpecRace)
    sent,           \* history (SpecRace): IDs of the messages persisted for each
                    \* client's message.send frames, in the order its read loop
                    \* handled them
    mutex           \* Hub.mutex and the goroutines inside its critical sections
                    \* (SpecLock): who holds the read lock, whether the hub
                    \* loop waits for the write lock, where the hub loop and
                    \* each fan-out stand

vars == <<blocks, conversations, messages, seq, presence, now, clients, UserID,
          Send, closed, crashed, rp, wp, ret, hs, sent, mutex>>

dbVars == <<blocks, conversations, messages, seq, presence>>
hubVars == <<clients, Send, closed, crashed, mutex>>
pumpVars == <<UserID, rp, wp>>

\* zero values of models.Conversation and models.Message
NoConversation == [ID |-> 0, UserAID |-> 0, UserBID |-> 0, LastMessageID |-> 0]
NoMessage == [ID |-> 0, ConversationID |-> 0, FromUserID |-> 0, ToUserID |-> 0,
              Text |-> "", Status |-> "", TempID |-> ""]

\* the goroutines that take Hub.mutex: the hub loop (0) and the read loops
Hub == 0
Goroutines == {Hub} \cup Clients

\* a goroutine outside the fan-out loops
NoFanOut == [pc |-> "idle", todo |-> {}, cur |-> 0]

\* nobody holds or awaits Hub.mutex; Hub.Run is blocked in its select
Unlocked ==
    [readers |-> {}, waiting |-> FALSE,
     hub |-> [pc |-> "select", client |-> 0, isOnline |-> FALSE],
     fan |-> [g \in Goroutines |-> NoFanOut]]

\* no frame is being handled
Idle == [pc |-> "idle", toUserID |-> 0, text |-> "", tempID |-> "",
         conversation |-> NoConversation, msg |-> NoMessage]

Returned(op, err) == [op |-> op, err |-> err]

Init ==
    /\ blocks = {}
    /\ conversations = {}
    /\ messages = {}
    /\ seq = [conv |-> 0, msg |-> 0]
    /\ presence = [u \in Users |-> [exists |-> FALSE, IsOnline |-> FALSE, LastSeenAt |-> 0]]
    /\ now = 0
    /\ clients = {}
    /\ UserID = [c \in Clients |-> 0]
    /\ Send = [c \in Clients |-> <<>>]
    /\ closed = [c \in Clients |-> FALSE]
    /\ crashed = FALSE
    /\ rp = [c \in Clients |-> "none"]
    /\ wp = [c \in Clients |-> "none"]
    /\ ret = Returned("", "nil")
    /\ hs = [c \in Clients |-> Idle]
    /\ sent = [c \in Clients |-> <<>>]
    /\ mutex = Unlocked

\* ------------------------------------------------------------ persistence

\* models.IsBlocked: counts the Block rows with blocker_id = userAID and
\* blocked_id = userBID
IsBlocked(userAID, userBID) == <<userAID, userBID>> \in blocks

MinID(rows) == CHOOSE r \in rows : \A q \in rows : r.ID <= q.ID

\* WHERE (user_a_id = a AND user_b_id = b) OR (user_a_id = b AND user_b_id = a)
ConversationsOf(convs, a, b) ==
    {cv \in convs : \/ (cv.UserAID = a /\ cv.UserBID = b)
                    \/ (cv.UserAID = b /\ cv.UserBID = a)}

\* db.Save(&row): writes every field of the caller's copy over the row with its ID
SaveRow(rows, row) == {r \in rows : r.ID # row.ID} \cup {row}

\* models.UpdatePresence: upsert of the user's single row
UpdatePresence(pres, userID, isOnline) ==
    [pres EXCEPT ![userID] = [exists |-> TRUE, IsOnline |-> isOnline, LastSeenAt |-> now]]

\* ------------------------------------------------------------------- hub

WSMessage(type, payload) == [type |-> type, payload |-> payload]

HubState == [clients |-> clients, Send |-> Send, closed |-> closed, crashed |-> crashed]

SetHub(h) ==
    /\ clients' = h.clients
    /\ Send' = h.Send
    /\ closed' = h.closed
    /\ crashed' = h.crashed
    /\ UNCHANGED mutex

\* a mailbox that hands its events over last-in first-out (sensitivity of C5)
TrySendFront(h, c, message) ==
    IF h.crashed THEN h
    ELSE IF h.closed[c] THEN [h EXCEPT !.crashed = TRUE]
    ELSE IF Len(h.Send[c]) < MailboxCap
         THEN [h EXCEPT !.Send[c] = <<message>> \o @]
         ELSE [h EXCEPT !.closed[c] = TRUE, !.clients = @ \ {c}]

\* select { case client.Send <- message: default: close(client.Send); delete(h.clients, client) }
\* A send on a closed channel panics, and so does closing a closed channel.
TrySend(h, c, message) ==
    IF h.crashed THEN h
    ELSE IF h.closed[c] THEN [h EXCEPT !.crashed = TRUE]
    ELSE IF Len(h.Send[c]) < MailboxCap
         THEN [h EXCEPT !.Send[c] = Append(@, message)]
         ELSE [h EXCEPT !.closed[c] = TRUE, !.clients = @ \ {c}]

RECURSIVE TrySendTimes(_, _, _, _)
TrySendTimes(h, c, message, n) ==
    IF n = 0 THEN h ELSE TrySendTimes(TrySend(h, c, message), c, message, n - 1)

\* for client := range h.clients { ... }: each listed client is offered the
\* message times[c] times; the order of the range does not matter because a
\* send touches only its own client.
RECURSIVE FanOut(_, _, _, _)
FanOut(h, targets, times, message) ==
    IF targets = {} THEN h
    ELSE LET c == CHOOSE x \in targets : TRUE
         IN FanOut(TrySendTimes(h, c, message, times[c]), targets \ {c}, times, message)

Once == [c \in Clients |-> 1]

\* Hub.Run, case message := <-h.broadcast
Broadcast(h, message) == FanOut(h, h.clients, Once, message)

\* a presence broadcast that does not skip the user's own sessions
\* (sensitivity of C9)
broadcastPresenceToAll(h, userID, isOnline) ==
    FanOut(h, h.clients, Once,
           WSMessage("presence.update",
                     [user_id |-> userID, is_online |-> isOnline, last_seen |-> now]))

\* Hub.broadcastPresenceUpdate
broadcastPresenceUpdate(h, userID, isOnline) ==
    FanOut(h, {c \in h.clients : UserID[c] # userID}, Once,
           WSMessage("presence.update",
                     [user_id |-> userID, is_online |-> isOnline, last_seen |-> now]))

\* a SendToUser that does not filter by user (sensitivity of C4)
SendToEveryUser(h, userID, message) == FanOut(h, h.clients, Once, message)

\* Hub.SendToUser
SendToUser(h, userID, message) ==
    FanOut(h, {c \in h.clients : UserID[c] = userID}, Once, message)

\* Hub.SendToConversation: the inner loop runs over [UserAID, UserBID], so a
\* client matches once per position that holds its user
SendToConversation(h, conversationID, message, excludeUserID) ==
    LET found == {cv \in conversations : cv.ID = conversationID}
    IN IF found = {} THEN h
       ELSE LET cv == MinID(found)
                times == [c \in Clients |->
                            IF UserID[c] = excludeUserID THEN 0
                            ELSE (IF UserID[c] = cv.UserAID THEN 1 ELSE 0)
                               + (IF UserID[c] = cv.UserBID THEN 1 ELSE 0)]
            IN FanOut(h, {c \in h.clients : times[c] > 0}, times, message)

\* ------------------------------------------------- sessions and the hub loop

\* Hub.HandleWebSocket with a valid token: the client is created and the
\* goroutine blocks on h.register <- client. Client c is the c-th connection
\* the server accepts.
HandleWebSocket(c, userID) ==
    /\ ~crashed
    /\ rp[c] = "none"
    /\ \A d \in Clients : d < c => rp[d] # "none"
    /\ UserID' = [UserID EXCEPT ![c] = userID]
    /\ rp' = [rp EXCEPT ![c] = "registering"]
    /\ UNCHANGED <<dbVars, now, hubVars, wp, ret, hs, sent>>

\* the key HandleWebSocket verifies signatures with, and the default key
\* utils.GenerateJWT signs with
SecretKey == "your-secret-key"
IssuerKey == "toloko-secret-key-change-in-production"

\* the user_id claim of a token: absent, a JSON string, or a JSON number,
\* which decodes to a float64 (kept here in halves: 3 halves is 1.5)
UserIDClaims ==
    {[kind |-> "absent", halves |-> 0], [kind |-> "string", halves |-> 0]}
    \cup {[kind |-> "number", halves |-> h] : h \in 2..(2 * NumUsers + 1)}

\* the token query parameter: empty, a string that is no JWT, or a JWT
Tokens ==
    {[form |-> f, key |-> "", expired |-> FALSE, user_id |-> [kind |-> "absent", halves |-> 0]] :
        f \in {"empty", "garbage"}}
    \cup {[form |-> "jwt", key |-> k, expired |-> e, user_id |-> v] :
             k \in {SecretKey, IssuerKey}, e \in BOOLEAN, v \in UserIDClaims}

\* a parse that does not verify the signature (sensitivity of C17)
TokenParsed(token) == token.form = "jwt" /\ ~token.expired

\* jwt.Parse with the key function of HandleWebSocket: err == nil && token.Valid
TokenValid(token) ==
    /\ token.form = "jwt"
    /\ token.key = SecretKey
    /\ ~token.expired

\* uint(userIDFloat) for a non-negative float64: the fraction is dropped
Uint(halves) == halves \div 2

\* c.Close() and return: the connection is over before any client exists
CloseConn(c) ==
    /\ ~crashed
    /\ rp[c] = "none"
    /\ \A d \in Clients : d < c => rp[d] # "none"
    /\ rp' = [rp EXCEPT ![c] = "rejected"]
    /\ UNCHANGED <<dbVars, now, hubVars, UserID, wp, ret, hs, sent>>

\* Hub.HandleWebSocket from the token query parameter on
Handshake(c, token) ==
    IF token.form = "empty" THEN CloseConn(c)
    ELSE IF ~TokenValid(token) THEN CloseConn(c)
    ELSE IF token.user_id.kind # "number" THEN CloseConn(c)
    ELSE HandleWebSocket(c, Uint(token.user_id.halves))

\* Hub.Run, case client := <-h.register; HandleWebSocket then starts both pumps
HubRegister(c) ==
    /\ ~crashed
    /\ rp[c] = "registering"
    /\ presence' = UpdatePresence(presence, UserID[c], TRUE)
    /\ SetHub(broadcastPresenceUpdate([HubState EXCEPT !.clients = @ \cup {c}],
                                      UserID[c], TRUE))
    /\ rp' = [rp EXCEPT ![c] = "run"]
    /\ wp' = [wp EXCEPT ![c] = "run"]
    /\ UNCHANGED <<blocks, conversations, messages, seq, now, UserID, ret, hs, sent>>

\* an unregister case that removes every session of the client's user
\* (sensitivity of C14)
RemoveClientsOfUser(h, c) ==
    [h EXCEPT !.clients = {d \in @ : UserID[d] # UserID[c]},
              !.closed = [d \in Clients |->
                             @[d] \/ (d \in h.clients /\ UserID[d] = UserID[c])]]

\* an unregister case that closes the mailbox and keeps the map entry
\* (sensitivity of C12)
RemoveClientCloseOnly(h, c) ==
    IF c \in h.clients /\ ~h.closed[c] THEN [h EXCEPT !.closed[c] = TRUE] ELSE h

\* an unregister case that forgets close(client.Send) (sensitivity of C10)
RemoveClientKeepOpen(h, c) == [h EXCEPT !.clients = @ \ {c}]

\* the mutex-guarded part of the unregister case
RemoveClient(h, c) ==
    IF c \in h.clients
    THEN IF h.closed[c]
         THEN [h EXCEPT !.clients = @ \ {c}, !.crashed = TRUE]
         ELSE [h EXCEPT !.clients = @ \ {c}, !.closed[c] = TRUE]
    ELSE h

\* Hub.Run, case client := <-h.unregister (sent by readPump's deferred function,
\* which then closes the connection)
HubUnregister(c) ==
    /\ ~crashed
    /\ rp[c] = "unregister"
    /\ presence' = UpdatePresence(presence, UserID[c], FALSE)
    /\ SetHub(broadcastPresenceUpdate(RemoveClient(HubState, c), UserID[c], FALSE))
    /\ rp' = [rp EXCEPT ![c] = "done"]
    /\ UNCHANGED <<blocks, conversations, messages, seq, now, UserID, wp, ret, hs, sent>>

\* Hub.Run, case client := <-h.unregister, for a client whose request the hub
\* has processed before. The sessions themselves send one request each (the
\* deferred function of readPump); this is the hub's answer to a caller that
\* repeats it.
HubUnregisterRepeated(c) ==
    /\ ~crashed
    /\ rp[c] = "done"
    /\ presence' = UpdatePresence(presence, UserID[c], FALSE)
    /\ SetHub(broadcastPresenceUpdate(RemoveClient(HubState, c), UserID[c], FALSE))
    /\ UNCHANGED <<blocks, conversations, messages, seq, now, pumpVars, ret, hs, sent>>

\* Client.readPump: ReadJSON fails (idle-read deadline, socket error, frame
\* that does not decode, connection closed by the write pump); the loop
\* breaks and the deferred function blocks on h.unregister <- c
ReadError(c) ==
    /\ ~crashed
    /\ rp[c] = "run"
    /\ hs[c].pc = "idle"
    /\ rp' = [rp EXCEPT ![c] = "unregister"]
    /\ UNCHANGED <<dbVars, now, hubVars, UserID, wp, ret, hs, sent>>

\* a write pump whose return leaves the connection open: the read never
\* fails because of it (sensitivity of C13)
ReadStaysOpen(c) ==
    /\ FALSE
    /\ ReadError(c)

\* Client.readPump after the write pump has returned: its deferred function
\* has closed the connection, so the pending ReadJSON fails
ReadClosed(c) ==
    /\ wp[c] = "done"
    /\ ReadError(c)

\* Client.writePump: one event received from c.Send and written
WritePumpWrite(c) ==
    /\ ~crashed
    /\ wp[c] = "run"
    /\ Send[c] # <<>>
    /\ Send' = [Send EXCEPT ![c] = Tail(@)]
    /\ UNCHANGED <<dbVars, now, clients, closed, crashed, mutex, pumpVars, ret, hs, sent>>

\* Client.writePump: c.Send is closed and drained (ok = false); the pump
\* writes the close message and returns, closing the connection
WritePumpClosed(c) ==
    /\ ~crashed
    /\ wp[c] = "run"
    /\ Send[c] = <<>>
    /\ closed[c]
    /\ wp' = [wp EXCEPT ![c] = "done"]
    /\ UNCHANGED <<dbVars, now, hubVars, UserID, rp, ret, hs, sent>>

\* Client.writePump: WriteJSON or the keepalive ping fails
WritePumpError(c) ==
    /\ ~crashed
    /\ wp[c] = "run"
    /\ wp' = [wp EXCEPT ![c] = "done"]
    /\ UNCHANGED <<dbVars, now, hubVars, UserID, rp, ret, hs, sent>>

\* time passes
Tick ==
    /\ ~crashed
    /\ now < MaxTime
    /\ now' = now + 1
    /\ UNCHANGED <<dbVars, hubVars, pumpVars, ret, hs, sent>>

\* -------------------------------------------------------- frame handlers

NewConversation(userAID, userBID) ==
    [ID |-> seq.conv + 1, UserAID |-> userAID, UserBID |-> userBID, LastMessageID |-> 0]

NewMessage(conversationID, fromUserID, toUserID, text, tempID) ==
    [ID |-> seq.msg + 1, ConversationID |-> conversationID, FromUserID |-> fromUserID,
     ToUserID |-> toUserID, Text |-> text, Status |-> MessageStatusSent, TempID |-> tempID]

deliveryMessage(msg, tempID) ==
    WSMessage("message.deliver", [message_id |-> msg.ID, temp_id |-> tempID])

receiveMessage(msg, conversationID) ==
    WSMessage("message.receive",
              [id |-> msg.ID, conversation_id |-> conversationID,
               from_user_id |-> msg.FromUserID, text |-> msg.Text, status |-> msg.Status])

\* the guard at the top of handleSendMessage: models.IsBlocked(db, c.UserID, toUserID)
SendBlocked(c, toUserID) == IsBlocked(UserID[c], toUserID)

\* Client.handleSendMessage, one frame message.send {text, to_user_id} with temp_id
handleSendMessage(c, toUserID, text, tempID) ==
    /\ ~crashed
    /\ rp[c] = "run"
    /\ hs[c].pc = "idle"
    /\ IF SendBlocked(c, toUserID)
       THEN UNCHANGED vars
       ELSE LET found == ConversationsOf(conversations, UserID[c], toUserID)
                conversation == IF found # {} THEN MinID(found)
                                ELSE NewConversation(UserID[c], toUserID)
                msg == NewMessage(conversation.ID, UserID[c], toUserID, text, tempID)
                h1 == SendToUser(HubState, UserID[c], deliveryMessage(msg, tempID))
                h2 == SendToUser(h1, toUserID, receiveMessage(msg, conversation.ID))
            IN /\ seq.msg < MaxMessages
               /\ (found = {}) => seq.conv < MaxConversations
               /\ conversations' =
                     SaveRow(conversations, [conversation EXCEPT !.LastMessageID = msg.ID])
               /\ messages' = messages \cup {msg}
               /\ seq' = [conv |-> IF found = {} THEN seq.conv + 1 ELSE seq.conv,
                          msg |-> seq.msg + 1]
               /\ SetHub(h2)
               /\ UNCHANGED <<blocks, presence, now, pumpVars, ret, hs, sent>>

readMessage(msg) == WSMessage("message.read", [message_id |-> msg.ID])

\* Client.handleReadMessage, one frame message.read {message_id}
handleReadMessage(c, messageID) ==
    /\ ~crashed
    /\ rp[c] = "run"
    /\ hs[c].pc = "idle"
    /\ LET found == {m \in messages : m.ID = messageID}
       IN IF found = {} \/ (\E m \in found : m.ToUserID # UserID[c])
          THEN UNCHANGED vars
          ELSE LET msg == MinID(found)
               IN /\ messages' = SaveRow(messages, [msg EXCEPT !.Status = MessageStatusRead])
                  /\ SetHub(SendToUser(HubState, msg.FromUserID, readMessage(msg)))
                  /\ UNCHANGED <<blocks, conversations, seq, presence, now, pumpVars, ret, hs, sent>>

typingMessage(type, c, conversationID) ==
    WSMessage(type, [user_id |-> UserID[c], conversation_id |-> conversationID])

\* Client.handleTypingStart / Client.handleTypingStop
handleTyping(c, type, conversationID) ==
    /\ ~crashed
    /\ rp[c] = "run"
    /\ hs[c].pc = "idle"
    /\ SetHub(SendToConversation(HubState, conversationID,
                                 typingMessage(type, c, conversationID), UserID[c]))
    /\ UNCHANGED <<dbVars, now, pumpVars, ret, hs, sent>>

\* Client.handlePing
handlePing(c) ==
    /\ ~crashed
    /\ rp[c] = "run"
    /\ hs[c].pc = "idle"
    /\ SetHub(SendToUser(HubState, UserID[c], WSMessage("pong", [timestamp |-> now])))
    /\ UNCHANGED <<dbVars, now, pumpVars, ret, hs, sent>>

\* a decoded frame: its type, whether its payload is a JSON object, the
\* fields the handlers read from the payload (zero when absent) and temp_id
WSFrame(type, object, toUserID, text, tempID, messageID, conversationID) ==
    [type |-> type, object |-> object, to_user_id |-> toUserID, text |-> text,
     temp_id |-> tempID, message_id |-> messageID, conversation_id |-> conversationID]

\* a handler that answers a frame it does not process with an error event
\* (sensitivity of C20)
replyError(c) ==
    /\ ~crashed
    /\ rp[c] = "run"
    /\ hs[c].pc = "idle"
    /\ SetHub(SendToUser(HubState, UserID[c], WSMessage("error", [timestamp |-> now])))
    /\ ret' = Returned("handleMessage", "")
    /\ UNCHANGED <<dbVars, now, pumpVars, hs, sent>>

\* the switch of handleMessage matches no case, or the handler returns at its
\* payload type assertion; readPump goes on to the next ReadJSON
dropFrame(c) ==
    /\ ~crashed
    /\ rp[c] = "run"
    /\ hs[c].pc = "idle"
    /\ ret' = Returned("handleMessage", "")
    /\ UNCHANGED <<dbVars, now, hubVars, pumpVars, hs, sent>>

\* Client.handleMessage
handleMessage(c, message) ==
    CASE message.type = "message.send" ->
            IF message.object
            THEN handleSendMessage(c, message.to_user_id, message.text, message.temp_id)
            ELSE dropFrame(c)
      [] message.type = "message.read" ->
            IF message.object THEN handleReadMessage(c, message.message_id) ELSE dropFrame(c)
      [] message.type \in {"typing.start", "typing.stop"} ->
            IF message.object
            THEN handleTyping(c, message.type, message.conversation_id)
            ELSE dropFrame(c)
      [] message.type = "ping" -> handlePing(c)
      [] OTHER -> dropFrame(c)

\* ------------------------------------------------------- service calls (REST)

\* BlockController.BlockUser
BlockUser(userID, blockedUserID) ==
    /\ ~crashed
    /\ blockedUserID # userID
    /\ <<userID, blockedUserID>> \notin blocks
    /\ blocks' = blocks \cup {<<userID, blockedUserID>>}
    /\ UNCHANGED <<conversations, messages, seq, presence, now, hubVars, pumpVars, ret, hs, sent>>

\* BlockController.UnblockUser
UnblockUser(userID, blockedUserID) ==
    /\ ~crashed
    /\ <<userID, blockedUserID>> \in blocks
    /\ blocks' = blocks \ {<<userID, blockedUserID>>}
    /\ UNCHANGED <<conversations, messages, seq, presence, now, hubVars, pumpVars, ret, hs, sent>>

\* MessageService.CreateMessage
CreateMessage(conversationID, fromUserID, toUserID, text, tempID) ==
    /\ ~crashed
    /\ LET found == {cv \in conversations :
                        /\ cv.ID = conversationID
                        /\ (cv.UserAID = fromUserID \/ cv.UserBID = fromUserID)}
       IN IF found = {}
          THEN /\ ret' = Returned("CreateMessage", "record not found")
               /\ UNCHANGED <<dbVars, now, hubVars, pumpVars, hs, sent>>
          ELSE IF IsBlocked(fromUserID, toUserID)
          THEN /\ ret' = Returned("CreateMessage", "user is blocked")
               /\ UNCHANGED <<dbVars, now, hubVars, pumpVars, hs, sent>>
          ELSE LET conversation == MinID(found)
                   message == NewMessage(conversationID, fromUserID, toUserID, text, tempID)
               IN /\ seq.msg < MaxMessages
                  /\ messages' = messages \cup {message}
                  /\ conversations' =
                        SaveRow(conversations,
                                [conversation EXCEPT !.LastMessageID = message.ID])
                  /\ seq' = [seq EXCEPT !.msg = @ + 1]
                  /\ ret' = Returned("CreateMessage", "nil")
                  /\ UNCHANGED <<blocks, presence, now, hubVars, pumpVars, hs, sent>>

\* MessageService.UpdateMessageStatus: UPDATE messages SET status = ? WHERE id = ?
UpdateMessageStatus(messageID, status) ==
    /\ ~crashed
    /\ messages' = {IF m.ID = messageID THEN [m EXCEPT !.Status = status] ELSE m :
                       m \in messages}
    /\ ret' = Returned("UpdateMessageStatus", "nil")
    /\ UNCHANGED <<blocks, conversations, seq, presence, now, hubVars, pumpVars, hs, sent>>

\* a MarkAsRead whose query lacks "AND to_user_id = ?" (sensitivity of C8)
MarkAsReadAnyUser(messageID, userID) ==
    /\ ~crashed
    /\ LET found == {m \in messages : m.ID = messageID}
       IN IF found = {}
          THEN /\ ret' = Returned("MarkAsRead", "record not found")
               /\ UNCHANGED messages
          ELSE /\ messages' =
                     SaveRow(messages, [MinID(found) EXCEPT !.Status = MessageStatusRead])
               /\ ret' = Returned("MarkAsRead", "nil")
    /\ UNCHANGED <<blocks, conversations, seq, presence, now, hubVars, pumpVars, hs, sent>>

\* MessageService.MarkAsRead
MarkAsRead(messageID, userID) ==
    /\ ~crashed
    /\ LET found == {m \in messages : m.ID = messageID /\ m.ToUserID = userID}
       IN IF found = {}
          THEN /\ ret' = Returned("MarkAsRead", "record not found")
               /\ UNCHANGED messages
          ELSE /\ messages' =
                     SaveRow(messages, [MinID(found) EXCEPT !.Status = MessageStatusRead])
               /\ ret' = Returned("MarkAsRead", "nil")
    /\ UNCHANGED <<blocks, conversations, seq, presence, now, hubVars, pumpVars, hs, sent>>

\* UPDATE messages SET status = 'read'
\* WHERE conversation_id = ? AND to_user_id = ? AND status != 'read'
MarkAllRead(conversationID, userID) ==
    {IF m.ConversationID = conversationID /\ m.ToUserID = userID
        /\ m.Status # MessageStatusRead
     THEN [m EXCEPT !.Status = MessageStatusRead] ELSE m : m \in messages}

\* MessageService.MarkConversationAsRead
MarkConversationAsRead(conversationID, userID) ==
    /\ ~crashed
    /\ LET found == {cv \in conversations :
                        /\ cv.ID = conversationID
                        /\ (cv.UserAID = userID \/ cv.UserBID = userID)}
       IN IF found = {}
          THEN /\ ret' = Returned("MarkConversationAsRead", "record not found")
               /\ UNCHANGED messages
          ELSE /\ messages' = MarkAllRead(conversationID, userID)
               /\ ret' = Returned("MarkConversationAsRead", "nil")
    /\ UNCHANGED <<blocks, conversations, seq, presence, now, hubVars, pumpVars, hs, sent>>

\* ConversationService.MarkAsRead
ConversationMarkAsRead(conversationID, userID) ==
    /\ ~crashed
    /\ messages' = MarkAllRead(conversationID, userID)
    /\ ret' = Returned("ConversationService.MarkAsRead", "nil")
    /\ UNCHANGED <<blocks, conversations, seq, presence, now, hubVars, pumpVars, hs, sent>>

\* what ConversationService.GetOrCreateConversation returns: the error and
\* the conversation (the zero row with the error)
Resolution(userAID, userBID) ==
    IF IsBlocked(userAID, userBID)
    THEN [err |-> "user is blocked", conversation |-> NoConversation]
    ELSE LET found == ConversationsOf(conversations, userAID, userBID)
         IN  IF found # {}
             THEN [err |-> "nil", conversation |-> MinID(found)]
             ELSE [err |-> "nil", conversation |-> NewConversation(userAID, userBID)]

Resolved(r) == [op |-> "GetOrCreateConversation", err |-> r.err, id |-> r.conversation.ID]

\* ConversationService.GetOrCreateConversation
GetOrCreateConversation(userAID, userBID) ==
    /\ ~crashed
    /\ LET r == Resolution(userAID, userBID)
       IN  /\ ret' = Resolved(r)
           /\ IF r.err = "nil" /\ r.conversation \notin conversations
              THEN /\ seq.conv < MaxConversations
                   /\ conversations' = conversations \cup {r.conversation}
                   /\ seq' = [seq EXCEPT !.conv = @ + 1]
              ELSE UNCHANGED <<conversations, seq>>
    /\ UNCHANGED <<blocks, messages, presence, now, hubVars, pumpVars, hs, sent>>

\* ConversationController.CreateConversation: a request that names the caller
\* itself is answered 400 before the service is called
CreateConversation(userID, userBID) ==
    /\ userBID # userID
    /\ GetOrCreateConversation(userID, userBID)

\* ------------------------------------ handleSendMessage, statement by statement

\* lines 320-334: the payload is decoded and models.IsBlocked consulted
SendBegin(c, toUserID, text, tempID) ==
    /\ ~crashed
    /\ rp[c] = "run"
    /\ hs[c].pc = "idle"
    /\ IF SendBlocked(c, toUserID)
       THEN UNCHANGED hs
       ELSE hs' = [hs EXCEPT ![c] = [Idle EXCEPT !.pc = "lookup", !.toUserID = toUserID,
                                                 !.text = text, !.tempID = tempID]]
    /\ UNCHANGED <<dbVars, now, hubVars, pumpVars, ret, sent>>

\* lines 337-341: SELECT of the pair's conversation
SendLookup(c) ==
    /\ ~crashed
    /\ hs[c].pc = "lookup"
    /\ LET found == ConversationsOf(conversations, UserID[c], hs[c].toUserID)
       IN hs' = [hs EXCEPT ![c] =
                    IF found # {} THEN [@ EXCEPT !.pc = "insert", !.conversation = MinID(found)]
                    ELSE [@ EXCEPT !.pc = "create"]]
    /\ UNCHANGED <<dbVars, now, hubVars, pumpVars, ret, sent>>

\* lines 342-351: INSERT of a new conversation
SendCreate(c) ==
    /\ ~crashed
    /\ hs[c].pc = "create"
    /\ seq.conv < MaxConversations
    /\ LET conversation == NewConversation(UserID[c], hs[c].toUserID)
       IN /\ conversations' = conversations \cup {conversation}
          /\ hs' = [hs EXCEPT ![c] = [@ EXCEPT !.pc = "insert", !.conversation = conversation]]
    /\ seq' = [seq EXCEPT !.conv = @ + 1]
    /\ UNCHANGED <<blocks, messages, presence, now, hubVars, pumpVars, ret, sent>>

\* lines 358-371: INSERT of the message
SendInsert(c) ==
    /\ ~crashed
    /\ hs[c].pc = "insert"
    /\ seq.msg < RaceMessages
    /\ LET msg == NewMessage(hs[c].conversation.ID, UserID[c], hs[c].toUserID,
                             hs[c].text, hs[c].tempID)
       IN /\ messages' = messages \cup {msg}
          /\ hs' = [hs EXCEPT ![c] = [@ EXCEPT !.pc = "save", !.msg = msg]]
          /\ sent' = [sent EXCEPT ![c] = Append(@, msg.ID)]
    /\ seq' = [seq EXCEPT !.msg = @ + 1]
    /\ UNCHANGED <<blocks, conversations, presence, now, hubVars, pumpVars, ret>>

\* lines 373-375: the handler's copy of the conversation is saved with the new
\* last message
SendSave(c) ==
    /\ ~crashed
    /\ hs[c].pc = "save"
    /\ conversations' =
          SaveRow(conversations, [hs[c].conversation EXCEPT !.LastMessageID = hs[c].msg.ID])
    /\ hs' = [hs EXCEPT ![c] = [@ EXCEPT !.pc = "deliver"]]
    /\ UNCHANGED <<blocks, messages, seq, presence, now, hubVars, pumpVars, ret, sent>>

\* lines 377-385: acknowledgment to the sender
SendDeliver(c) ==
    /\ ~crashed
    /\ hs[c].pc = "deliver"
    /\ SetHub(SendToUser(HubState, UserID[c], deliveryMessage(hs[c].msg, hs[c].tempID)))
    /\ hs' = [hs EXCEPT ![c] = [@ EXCEPT !.pc = "receive"]]
    /\ UNCHANGED <<dbVars, now, pumpVars, ret, sent>>

\* lines 387-401: the message to the recipient; the handler returns
SendReceive(c) ==
    /\ ~crashed
    /\ hs[c].pc = "receive"
    /\ SetHub(SendToUser(HubState, hs[c].toUserID,
                         receiveMessage(hs[c].msg, hs[c].conversation.ID)))
    /\ hs' = [hs EXCEPT ![c] = Idle]
    /\ UNCHANGED <<dbVars, now, pumpVars, ret, sent>>

\* a storage error that ends the read loop (sensitivity of C21)
StorageErrorBreaks(c) ==
    /\ ~crashed
    /\ hs[c].pc \in {"lookup", "create", "insert"}
    /\ hs' = [hs EXCEPT ![c] = Idle]
    /\ rp' = [rp EXCEPT ![c] = "unregister"]
    /\ ret' = Returned("handleSendMessage", "storage error")
    /\ UNCHANGED <<dbVars, now, hubVars, UserID, wp, sent>>

\* lines 331-334, 341-356, 368-371: the database call the handler is about
\* to make (IsBlocked, the SELECT or the INSERT of the conversation, the
\* INSERT of the message) returns an error; the handler logs and returns
StorageError(c) ==
    /\ ~crashed
    /\ \/ hs[c].pc = "idle" /\ rp[c] = "run"
       \/ hs[c].pc \in {"lookup", "create", "insert"}
    /\ hs' = [hs EXCEPT ![c] = Idle]
    /\ ret' = Returned("handleSendMessage", "storage error")
    /\ UNCHANGED <<dbVars, now, hubVars, pumpVars, sent>>

\* ------------------------------------------- Hub.mutex, statement by statement

\* the event a goroutine's fan-out offers: the presence update of the hub
\* loop, the pong of a read loop
FanOutMessage(g) ==
    IF g = Hub
    THEN WSMessage("presence.update",
                   [user_id |-> UserID[mutex.hub.client], is_online |-> mutex.hub.isOnline,
                    last_seen |-> now])
    ELSE WSMessage("pong", [timestamp |-> now])

\* h.mutex.RLock() followed by the start of `for client := range h.clients`
\* over the clients the loop body selects
RLock(g, targets) ==
    [mutex EXCEPT !.readers = @ \cup {g},
                  !.fan[g] = [pc |-> "range", todo |-> targets, cur |-> 0]]

\* Hub.Run receives from h.register or h.unregister. The sender goes on:
\* HandleWebSocket starts the two pumps, readPump's deferred function closes
\* the connection. The hub loop goes for h.mutex.Lock(), and from then on a
\* new RLock waits (sync.RWMutex).
HubReceive(c) ==
    /\ ~crashed
    /\ mutex.hub.pc = "select"
    /\ rp[c] \in {"registering", "unregister"}
    /\ mutex' = [mutex EXCEPT !.waiting = TRUE,
                              !.hub = [pc |-> "Lock", client |-> c,
                                       isOnline |-> (rp[c] = "registering")]]
    /\ rp' = [rp EXCEPT ![c] = IF @ = "registering" THEN "run" ELSE "done"]
    /\ wp' = [wp EXCEPT ![c] = IF rp[c] = "registering" THEN "run" ELSE @]
    /\ UNCHANGED <<dbVars, now, clients, Send, closed, crashed, UserID, ret, hs, sent>>

\* lines 78-80 and 91-96: Lock, the insert or the delete and close, Unlock
HubLocked ==
    /\ ~crashed
    /\ mutex.hub.pc = "Lock"
    /\ mutex.readers = {}
    /\ LET c == mutex.hub.client
           h == IF mutex.hub.isOnline
                THEN [HubState EXCEPT !.clients = @ \cup {c}]
                ELSE RemoveClient(HubState, c)
       IN /\ clients' = h.clients
          /\ closed' = h.closed
          /\ crashed' = h.crashed
    /\ mutex' = [mutex EXCEPT !.waiting = FALSE, !.hub.pc = "UpdatePresence"]
    /\ UNCHANGED <<dbVars, now, Send, pumpVars, ret, hs, sent>>

\* lines 83 and 99: models.UpdatePresence
HubUpdatePresence ==
    /\ ~crashed
    /\ mutex.hub.pc = "UpdatePresence"
    /\ presence' = UpdatePresence(presence, UserID[mutex.hub.client], mutex.hub.isOnline)
    /\ mutex' = [mutex EXCEPT !.hub.pc = "broadcastPresenceUpdate"]
    /\ UNCHANGED <<blocks, conversations, messages, seq, now, clients, Send, closed, crashed,
                   pumpVars, ret, hs, sent>>

\* lines 86 and 102: broadcastPresenceUpdate takes the read lock and starts
\* its loop over the clients of the other users
HubRLock ==
    /\ ~crashed
    /\ mutex.hub.pc = "broadcastPresenceUpdate"
    /\ mutex' = [RLock(Hub, {d \in clients : UserID[d] # UserID[mutex.hub.client]})
                    EXCEPT !.hub.pc = "range"]
    /\ UNCHANGED <<dbVars, now, clients, Send, closed, crashed, pumpVars, ret, hs, sent>>

\* handlePing: SendToUser(c.UserID, pong) takes the read lock, unless the hub
\* loop is waiting for the write lock, and starts its loop over the clients
\* of the user
PingRLock(c) ==
    /\ ~crashed
    /\ rp[c] = "run"
    /\ hs[c].pc = "idle"
    /\ mutex.fan[c].pc = "idle"
    /\ ~mutex.waiting
    /\ mutex' = RLock(c, {d \in clients : UserID[d] = UserID[c]})
    /\ UNCHANGED <<dbVars, now, clients, Send, closed, crashed, pumpVars, ret, hs, sent>>

\* select { case client.Send <- message: ... default: ... } for the next
\* client d of the loop: a send on a closed channel panics, a channel with
\* room takes the event, a full one selects the default case
FanOutSelect(g, d) ==
    /\ ~crashed
    /\ mutex.fan[g].pc = "range"
    /\ d \in mutex.fan[g].todo
    /\ IF closed[d]
       THEN /\ crashed' = TRUE
            /\ UNCHANGED <<Send, mutex>>
       ELSE IF Len(Send[d]) < MailboxCap
       THEN /\ Send' = [Send EXCEPT ![d] = Append(@, FanOutMessage(g))]
            /\ mutex' = [mutex EXCEPT !.fan[g].todo = @ \ {d}]
            /\ UNCHANGED crashed
       ELSE /\ mutex' = [mutex EXCEPT !.fan[g] = [pc |-> "close", todo |-> @.todo \ {d},
                                                  cur |-> d]]
            /\ UNCHANGED <<Send, crashed>>
    /\ UNCHANGED <<dbVars, now, clients, closed, pumpVars, ret, hs, sent>>

\* the loop does not come to a client that another goroutine has deleted
\* from the map in the meantime
FanOutSkip(g, d) ==
    /\ ~crashed
    /\ mutex.fan[g].pc = "range"
    /\ d \in mutex.fan[g].todo
    /\ d \notin clients
    /\ mutex' = [mutex EXCEPT !.fan[g].todo = @ \ {d}]
    /\ UNCHANGED <<dbVars, now, clients, Send, closed, crashed, pumpVars, ret, hs, sent>>

\* default: close(client.Send); closing a closed channel panics
FanOutClose(g) ==
    /\ ~crashed
    /\ mutex.fan[g].pc = "close"
    /\ IF closed[mutex.fan[g].cur]
       THEN /\ crashed' = TRUE
            /\ UNCHANGED <<closed, mutex>>
       ELSE /\ closed' = [closed EXCEPT ![mutex.fan[g].cur] = TRUE]
            /\ mutex' = [mutex EXCEPT !.fan[g].pc = "delete"]
            /\ UNCHANGED crashed
    /\ UNCHANGED <<dbVars, now, clients, Send, pumpVars, ret, hs, sent>>

\* default: delete(h.clients, client), under the read lock. While another
\* goroutine is inside its own loop over the map this is a data race: the
\* runtime may stop the process (concurrent map iteration and map write,
\* concurrent map writes) or not notice
FanOutDelete(g) ==
    /\ ~crashed
    /\ mutex.fan[g].pc = "delete"
    /\ clients' = clients \ {mutex.fan[g].cur}
    /\ crashed' \in (IF mutex.readers = {g} THEN {FALSE} ELSE {FALSE, TRUE})
    /\ mutex' = [mutex EXCEPT !.fan[g].pc = "range", !.fan[g].cur = 0]
    /\ UNCHANGED <<dbVars, now, Send, closed, pumpVars, ret, hs, sent>>

\* the loop is over: h.mutex.RUnlock(); the hub loop is back at its select
RUnlock(g) ==
    /\ ~crashed
    /\ mutex.fan[g].pc = "range"
    /\ mutex.fan[g].todo = {}
    /\ mutex' = [mutex EXCEPT !.readers = @ \ {g},
                              !.fan[g] = NoFanOut,
                              !.hub.pc = IF g = Hub THEN "select" ELSE @]
    /\ UNCHANGED <<dbVars, now, clients, Send, closed, crashed, pumpVars, ret, hs, sent>>

\* Client.readPump: ReadJSON fails between two frames
ReadErrorBetweenFrames(c) ==
    /\ mutex.fan[c].pc = "idle"
    /\ ReadError(c)

\* MessageService.DeleteMessage: the sender's message row is deleted; the
\* conversation row is not touched. Whether the database refuses to delete a
\* row that a conversation's last_message_id refers to depends on the database
\* InitDB opened and on its enforcement of the LastMessage relation, so both
\* outcomes are possible.
DeleteMessage(messageID, userID) ==
    /\ ~crashed
    /\ LET found == {m \in messages : m.ID = messageID /\ m.FromUserID = userID}
           referenced == \E cv \in conversations : cv.LastMessageID = messageID
       IN IF found = {}
          THEN /\ ret' = Returned("DeleteMessage", "record not found")
               /\ UNCHANGED messages
          ELSE \/ /\ messages' = messages \ found
                  /\ ret' = Returned("DeleteMessage", "nil")
               \/ /\ referenced
                  /\ ret' = Returned("DeleteMessage", "foreign key constraint")
                  /\ UNCHANGED messages
    /\ UNCHANGED <<blocks, conversations, seq, presence, now, hubVars, pumpVars, hs, sent>>

\* ------------------------------------------------------------ specifications

EventTypes == {"typing.start", "typing.stop"}
ConversationIDs == 1..MaxConversations
MessageIDs == 1..MaxMessages

\* the first n connections
ConnectUpTo(n) ==
    \/ \E c \in 1..n, u \in Users : HandleWebSocket(c, u)
    \/ \E c \in 1..n : HubRegister(c)

Connect == ConnectUpTo(NumClients)

Disconnect ==
    \/ \E c \in Clients : ReadError(c)
    \/ \E c \in Clients : HubUnregister(c)
    \/ \E c \in Clients : WritePumpClosed(c)
    \/ \E c \in Clients : WritePumpError(c)

Drain == \E c \in Clients : WritePumpWrite(c)

SendFrame ==
    \E c \in Clients, to \in Users, text \in Texts, tempID \in TempIDs :
       handleSendMessage(c, to, text, tempID)

ReadFrame == \E c \in Clients, id \in MessageIDs : handleReadMessage(c, id)

TypingFrame ==
    \E c \in Clients, type \in EventTypes, cv \in ConversationIDs : handleTyping(c, type, cv)

PingFrame == \E c \in Clients : handlePing(c)

Blocking ==
    \/ \E u, v \in Users : BlockUser(u, v)
    \/ \E u, v \in Users : UnblockUser(u, v)

CreateCall ==
    \E cv \in ConversationIDs, u, v \in Users, text \in Texts, tempID \in TempIDs :
       CreateMessage(cv, u, v, text, tempID)

DeleteCall == \E id \in MessageIDs, u \in Users : DeleteMessage(id, u)

StatusCalls ==
    \/ \E id \in MessageIDs, st \in Statuses : UpdateMessageStatus(id, st)
    \/ \E id \in MessageIDs, u \in Users : MarkAsRead(id, u)
    \/ \E cv \in ConversationIDs, u \in Users : MarkConversationAsRead(cv, u)
    \/ \E cv \in ConversationIDs, u \in Users : ConversationMarkAsRead(cv, u)

ResolveCall == \E u, v \in Users : GetOrCreateConversation(u, v)

ConversationCall == \E u, v \in Users : CreateConversation(u, v)

SendSteps ==
    \/ \E c \in Clients, to \in Users, text \in Texts, tempID \in TempIDs :
          SendBegin(c, to, text, tempID)
    \/ \E c \in Clients : SendLookup(c)
    \/ \E c \in Clients : SendCreate(c)
    \/ \E c \in Clients : SendInsert(c)
    \/ \E c \in Clients : SendSave(c)
    \/ \E c \in Clients : SendDeliver(c)
    \/ \E c \in Clients : SendReceive(c)

\* The whole system, every handler one step.
Next ==
    \/ Connect \/ Disconnect \/ Drain \/ Tick
    \/ SendFrame \/ ReadFrame \/ TypingFrame \/ PingFrame
    \/ Blocking \/ CreateCall \/ StatusCalls \/ ResolveCall

Spec == Init /\ [][Next]_vars

\* The product of all operations is beyond exhaustive enumeration, so each
\* property is checked under the operations that write the state it reads.

\* sessions coming and going: the hub's register and unregister cases
NextPresence == Connect \/ Disconnect \/ Drain \/ Tick
SpecPresence == Init /\ [][NextPresence]_vars

\* message.send frames and the write pumps draining their events
NextSend == Connect \/ Drain \/ SendFrame
SpecSend == Init /\ [][NextSend]_vars

\* message.send and typing frames
NextTyping == Connect \/ SendFrame \/ TypingFrame
SpecTyping == Init /\ [][NextTyping]_vars

\* blocks against both ways of creating a message
NextBlock == Connect \/ SendFrame \/ Blocking \/ CreateCall
SpecBlock == Init /\ [][NextBlock]_vars

\* every operation that writes Message.Status
NextRead == ConnectUpTo(ReadClients) \/ SendFrame \/ ReadFrame \/ StatusCalls
SpecRead == Init /\ [][NextRead]_vars

\* message.send handled statement by statement by concurrent read loops;
\* mailboxes are not drained, so that they keep the order of arrival
NextRace == ConnectUpTo(RaceClients) \/ SendSteps
SpecRace == Init /\ [][NextRace]_vars

\* the statement-level sends with database calls that may fail
NextStorage == ConnectUpTo(RaceClients) \/ SendSteps \/ \E c \in Clients : StorageError(c)
SpecStorage == Init /\ [][NextStorage]_vars

\* the hub's unregister case, with requests that are repeated
NextUnregister == NextPresence \/ \E c \in Clients : HubUnregisterRepeated(c)
SpecUnregister == Init /\ [][NextUnregister]_vars

\* the life of the sessions, with the scheduling the runtime gives: the hub
\* goroutine takes a pending unregister request, a write pump takes what its
\* mailbox offers (an event, or the close), and a read on a connection that
\* the write pump has closed returns its error
NextLifecycle == Connect \/ Disconnect \/ Drain
Fairness ==
    \A c \in Clients :
       /\ WF_vars(HubUnregister(c))
       /\ WF_vars(WritePumpWrite(c))
       /\ WF_vars(WritePumpClosed(c))
       /\ WF_vars(ReadClosed(c))
SpecLifecycle == Init /\ [][NextLifecycle]_vars /\ Fairness

\* the HTTP conversation resolver next to the block list and the send frames
NextResolve == Connect \/ SendFrame \/ Blocking \/ ConversationCall
SpecResolve == Init /\ [][NextResolve]_vars

\* connections from their handshake to their end
HandshakeCall ==
    \/ \E c \in Clients, token \in Tokens : Handshake(c, token)
    \/ \E c \in Clients : HubRegister(c)
NextHandshake == HandshakeCall \/ Disconnect \/ Drain
SpecHandshake == Init /\ [][NextHandshake]_vars

\* the frames a client may send that decode: every type, one that the switch
\* does not know and the empty one included, with a payload that is no JSON
\* object; the unknown types and ping with an object payload; and the
\* frames of the four other types with their fields
FrameTypes == {"message.send", "message.read", "typing.start", "typing.stop", "ping",
               "message.edit", ""}
Frames ==
    {WSFrame(t, FALSE, 0, "", "", 0, 0) : t \in FrameTypes}
    \cup {WSFrame(t, TRUE, 0, "", "", 0, 0) : t \in {"ping", "message.edit", ""}}
    \cup {WSFrame("message.send", TRUE, to, text, tempID, 0, 0) :
             to \in Users, text \in Texts, tempID \in TempIDs}
    \cup {WSFrame("message.read", TRUE, 0, "", "", id, 0) : id \in MessageIDs}
    \cup {WSFrame(t, TRUE, 0, "", "", 0, cv) : t \in EventTypes, cv \in ConversationIDs}

FrameCall == \E c \in Clients, message \in Frames : handleMessage(c, message)

\* sessions and every frame they can send
NextFrames == ConnectUpTo(FrameClients) \/ FrameCall
SpecFrames == Init /\ [][NextFrames]_vars

\* the hub loop and the pings of the read loops, each critical section of
\* Hub.mutex statement by statement
FanOutSteps ==
    \/ \E g \in Goroutines, d \in Clients : FanOutSelect(g, d)
    \/ \E g \in Goroutines, d \in Clients : FanOutSkip(g, d)
    \/ \E g \in Goroutines : FanOutClose(g)
    \/ \E g \in Goroutines : FanOutDelete(g)
    \/ \E g \in Goroutines : RUnlock(g)
HubSteps ==
    \/ \E c \in Clients : HubReceive(c)
    \/ HubLocked
    \/ HubUpdatePresence
    \/ HubRLock
NextLock ==
    \/ \E c \in 1..LockClients, u \in Users : HandleWebSocket(c, u)
    \/ \E c \in Clients : ReadErrorBetweenFrames(c)
    \/ \E c \in Clients : PingRLock(c)
    \/ HubSteps
    \/ FanOutSteps
SpecLock == Init /\ [][NextLock]_vars

\* the same under fair scheduling: the hub loop and every goroutine inside a
\* fan-out take their next step
LockFairness ==
    /\ WF_vars(HubSteps)
    /\ \A g \in Goroutines : WF_vars(\/ \E d \in Clients : FanOutSelect(g, d) \/ FanOutSkip(g, d)
                                     \/ FanOutClose(g) \/ FanOutDelete(g) \/ RUnlock(g))
SpecLockFair == Init /\ [][NextLock]_vars /\ LockFairness

\* both ways of creating a message, and the deletion of messages
NextDelete == ConnectUpTo(ReadClients) \/ SendFrame \/ CreateCall \/ DeleteCall
SpecDelete == Init /\ [][NextDelete]_vars

\* ------------------------------------------------------------- properties

Live(d) == d \in clients
LiveAfter(d) == d \in clients'

\* the session keeps its mailbox and its place in (or out of) the live set
Untouched(d) ==
    /\ Send'[d] = Send[d]
    /\ closed'[d] = closed[d]
    /\ LiveAfter(d) <=> Live(d)

\* the slow-consumer outcome: mailbox closed, session out of the live set
Dropped(d) ==
    /\ closed'[d]
    /\ ~LiveAfter(d)

HasRoom(d) == Len(Send[d]) < MailboxCap

Holds(d, e) == \E i \in 1..Len(Send[d]) : Send[d][i] = e

CountType(q, type) == Cardinality({i \in 1..Len(q) : q[i].type = type})

BlockBetween(a, b) == <<a, b>> \in blocks \/ <<b, a>> \in blocks

\* C1: while a Block row exists between sender and recipient in either
\* direction, a message.send frame handled by handleSendMessage, or a call of
\* CreateMessage, persists no Message row and enqueues no message.receive.
C1_NoMessageAcrossBlock ==
    [][ /\ \A c \in Clients, to \in Users, text \in Texts, tempID \in TempIDs :
             (handleSendMessage(c, to, text, tempID) /\ BlockBetween(UserID[c], to))
             => /\ messages' = messages
                /\ \A d \in Clients :
                      CountType(Send'[d], "message.receive")
                         <= CountType(Send[d], "message.receive")
        /\ \A cv \in ConversationIDs, u, v \in Users, text \in Texts, tempID \in TempIDs :
             (CreateMessage(cv, u, v, text, tempID) /\ BlockBetween(u, v))
             => messages' = messages
      ]_vars

\* C2: for any two users there is at most one Conversation row of the
\* unordered pair of distinct users, in every reachable state, also when
\* first contacts race.
C2_OneConversationPerPair ==
    \A x, y \in conversations :
       (/\ x.UserAID # x.UserBID
        /\ \/ (x.UserAID = y.UserAID /\ x.UserBID = y.UserBID)
           \/ (x.UserAID = y.UserBID /\ x.UserBID = y.UserAID))
       => x.ID = y.ID

\* what one fan-out of event e to the target sessions must leave behind: no
\* panic; a full target is dropped; a target with room has e appended once
\* and stays live; every other session keeps its mailbox
FanOutPost(targets, e) ==
    /\ ~crashed'
    /\ \A d \in Clients :
          IF d \in targets
          THEN IF HasRoom(d)
               THEN /\ Send'[d] = Append(Send[d], e)
                    /\ ~closed'[d]
                    /\ LiveAfter(d)
               ELSE /\ Send'[d] = Send[d]
                    /\ Dropped(d)
          ELSE Send'[d] = Send[d] /\ closed'[d] = closed[d]

\* live sessions of the conversation's participants, the typing user excepted
TypingTargets(c, conversationID) ==
    {d \in clients :
        /\ UserID[d] # UserID[c]
        /\ \E cv \in conversations :
              cv.ID = conversationID /\ UserID[d] \in {cv.UserAID, cv.UserBID}}

\* C3: every fan-out completes; a target whose mailbox is full is closed and
\* removed from the live set in that fan-out, every other target gets the
\* event appended and stays live. Stated for the fan-outs of a typing frame
\* (SendToConversation) and of a registration (broadcastPresenceUpdate).
C3_FanOutNonBlocking ==
    [][ /\ \A c \in Clients, type \in EventTypes, cv \in ConversationIDs :
             handleTyping(c, type, cv)
             => FanOutPost(TypingTargets(c, cv),
                           [type |-> type,
                            payload |-> [user_id |-> UserID[c], conversation_id |-> cv]])
        /\ \A c \in Clients :
             HubRegister(c)
             => FanOutPost({d \in clients : UserID[d] # UserID[c]},
                           [type |-> "presence.update",
                            payload |-> [user_id |-> UserID[c], is_online |-> TRUE,
                                         last_seen |-> now]])
      ]_vars

DeliverEvent(id, tempID) ==
    [type |-> "message.deliver", payload |-> [message_id |-> id, temp_id |-> tempID]]

ReceiveEvent(m) ==
    [type |-> "message.receive",
     payload |-> [id |-> m.ID, conversation_id |-> m.ConversationID,
                  from_user_id |-> m.FromUserID, text |-> m.Text, status |-> "sent"]]

\* the one row a successful message.send persists
SentRow(m, c, to, text, tempID) ==
    /\ m \notin messages
    /\ messages' = messages \cup {m}
    /\ m.FromUserID = UserID[c]
    /\ m.ToUserID = to
    /\ m.Text = text
    /\ m.TempID = tempID
    /\ m.Status = "sent"
    /\ \A q \in messages : q.ID # m.ID

\* the events message m owes to session d: the acknowledgment on the sender's
\* sessions, then the message on the recipient's
Owed(d, m, tempID) ==
    (IF Live(d) /\ UserID[d] = m.FromUserID THEN <<DeliverEvent(m.ID, tempID)>> ELSE <<>>)
    \o (IF Live(d) /\ UserID[d] = m.ToUserID THEN <<ReceiveEvent(m)>> ELSE <<>>)

\* C4 as claimed: a successful message.send persists exactly one row with
\* status sent; every live session of the sender gets exactly one
\* message.deliver, every live session of the recipient exactly one
\* message.receive, and no other session gets anything.
C4_EveryLiveSessionGetsItsEvent ==
    [][ \A c \in Clients, to \in Users, text \in Texts, tempID \in TempIDs :
           (handleSendMessage(c, to, text, tempID) /\ ~SendBlocked(c, to))
           => \E m \in messages' :
                 /\ SentRow(m, c, to, text, tempID)
                 /\ \A d \in Clients : Send'[d] = Send[d] \o Owed(d, m, tempID)
      ]_vars

\* C4: a successful message.send persists exactly one row with status sent;
\* every live session of the sender or the recipient gets its events appended
\* in order, exactly once, as long as its mailbox has room; a session whose
\* mailbox is full when an event arrives is dropped instead and gets nothing
\* more; sessions of other users are untouched.
C4_SendDelivers ==
    [][ \A c \in Clients, to \in Users, text \in Texts, tempID \in TempIDs :
           (handleSendMessage(c, to, text, tempID) /\ ~SendBlocked(c, to))
           => \E m \in messages' :
                 /\ SentRow(m, c, to, text, tempID)
                 /\ \A d \in Clients :
                       LET owed == Owed(d, m, tempID)
                           room == MailboxCap - Len(Send[d])
                       IN IF Len(owed) <= room
                          THEN /\ Send'[d] = Send[d] \o owed
                               /\ closed'[d] = closed[d]
                               /\ LiveAfter(d) <=> Live(d)
                          ELSE /\ Send'[d] = Send[d] \o SubSeq(owed, 1, room)
                               /\ Dropped(d)
      ]_vars

\* two sessions of the sender hold the acknowledgment of a message whose
\* recipient's session was full and has been dropped without it
C4_Witness ==
    \E m \in messages : \E a, b, d \in Clients :
       /\ a # b
       /\ Live(a) /\ Live(b)
       /\ UserID[a] = m.FromUserID /\ UserID[b] = m.FromUserID
       /\ Holds(a, DeliverEvent(m.ID, m.TempID))
       /\ Holds(b, DeliverEvent(m.ID, m.TempID))
       /\ UserID[d] = m.ToUserID
       /\ m.ToUserID # m.FromUserID
       /\ closed[d] /\ ~Live(d)
       /\ ~Holds(d, ReceiveEvent(m))

\* the message a frame of client c produced, by its place in c's history
MessageOf(id) == CHOOSE m \in messages : m.ID = id

\* the message an event is about (0 for the events that carry none)
EventMessageID(e) ==
    IF e.type = "message.deliver" THEN e.payload.message_id
    ELSE IF e.type = "message.receive" THEN e.payload.id
    ELSE 0

\* C5: of two message.send frames one read loop handled in order and that
\* are addressed to the same recipient, the first has the smaller message ID,
\* and in every mailbox the events of the first precede the events of the
\* second.
C5_OrderPerSession ==
    \A c \in Clients : \A i, j \in 1..Len(sent[c]) :
       (i < j /\ MessageOf(sent[c][i]).ToUserID = MessageOf(sent[c][j]).ToUserID)
       => /\ sent[c][i] < sent[c][j]
          /\ \A d \in Clients : \A p, q \in 1..Len(Send[d]) :
                (/\ EventMessageID(Send[d][p]) = sent[c][i]
                 /\ EventMessageID(Send[d][q]) = sent[c][j])
                => p < q

\* a session sent twice to one recipient, another session's message was
\* persisted in between, and one mailbox holds events of both of its messages
C5_Witness ==
    \E c, o, d \in Clients :
       /\ c # o
       /\ Len(sent[c]) = 2
       /\ Len(sent[o]) = 1
       /\ sent[c][1] < sent[o][1] /\ sent[o][1] < sent[c][2]
       /\ MessageOf(sent[c][1]).ToUserID = MessageOf(sent[c][2]).ToUserID
       /\ \E p, q \in 1..Len(Send[d]) :
             /\ EventMessageID(Send[d][p]) = sent[c][1]
             /\ EventMessageID(Send[d][q]) = sent[c][2]

\* C6: a message.read frame of the recipient for a message that is already
\* read changes nothing and enqueues nothing.
C6_SecondReadIsNoOp ==
    [][ \A c \in Clients, id \in MessageIDs :
           (/\ handleReadMessage(c, id)
            /\ \E m \in messages :
                  m.ID = id /\ m.ToUserID = UserID[c] /\ m.Status = "read")
           => /\ messages' = messages
              /\ \A d \in Clients : Untouched(d)
      ]_vars

StatusRank(status) ==
    IF status = "sent" THEN 1 ELSE IF status = "delivered" THEN 2 ELSE 3

\* C7: the status of a Message never regresses in the order sent, delivered,
\* read, whichever operation writes it.
C7_StatusMonotonic ==
    [][ \A m \in messages : \A n \in messages' :
           n.ID = m.ID => StatusRank(n.Status) >= StatusRank(m.Status)
      ]_vars

NotRecipient(id, userID) == \E m \in messages : m.ID = id /\ m.ToUserID # userID

\* C8: marking a message read on behalf of a user who is not its recipient
\* fails: MarkAsRead returns an error, handleReadMessage returns without
\* acting, no Message row changes and nothing is enqueued.
C8_NonRecipientRejected ==
    [][ /\ \A c \in Clients, id \in MessageIDs :
             (handleReadMessage(c, id) /\ NotRecipient(id, UserID[c]))
             => /\ messages' = messages
                /\ \A d \in Clients : Untouched(d)
        /\ \A id \in MessageIDs, u \in Users :
             (MarkAsRead(id, u) /\ NotRecipient(id, u))
             => /\ messages' = messages
                /\ \A d \in Clients : Untouched(d)
                /\ ret'.err # "nil"
      ]_vars

\* the sender's MarkAsRead of a message has failed and the message is as sent
C8_Witness ==
    /\ ret = Returned("MarkAsRead", "record not found")
    /\ \E m \in messages : \E c \in Clients :
          /\ m.Status = "sent"
          /\ Live(c) /\ UserID[c] = m.FromUserID
          /\ m.FromUserID # m.ToUserID
          /\ CountType(Send[c], "message.read") = 0

PresenceEvent(userID, isOnline) ==
    [type |-> "presence.update",
     payload |-> [user_id |-> userID, is_online |-> isOnline, last_seen |-> now]]

\* C9 as claimed: the registration of session c puts c in the live set, marks
\* its user online and enqueues exactly one presence.update on every other
\* live session, the other sessions of the same user included; c gets none.
C9_EveryOtherSessionNotified ==
    [][ \A c \in Clients :
           HubRegister(c)
           => /\ LiveAfter(c)
              /\ presence'[UserID[c]].exists /\ presence'[UserID[c]].IsOnline
              /\ Send'[c] = Send[c]
              /\ \A d \in clients \ {c} :
                    Send'[d] = Append(Send[d], PresenceEvent(UserID[c], TRUE))
      ]_vars

\* what a presence broadcast about user u leaves on a session d other than
\* the one registering or unregistering: sessions of other users get the
\* event once if they have room and are dropped if they are full; sessions
\* of u itself and sessions outside the live set get nothing
PresencePost(d, userID, isOnline) ==
    IF Live(d) /\ UserID[d] # userID
    THEN IF HasRoom(d)
         THEN /\ Send'[d] = Append(Send[d], PresenceEvent(userID, isOnline))
              /\ ~closed'[d]
              /\ LiveAfter(d)
         ELSE /\ Send'[d] = Send[d]
              /\ Dropped(d)
    ELSE Untouched(d)

\* C9: the registration of session c puts c in the live set, marks its user
\* online and enqueues exactly one presence.update on every other live
\* session that belongs to another user and has room; a full one is dropped;
\* c and the other sessions of its user get none.
C9_Register ==
    [][ \A c \in Clients :
           HubRegister(c)
           => /\ LiveAfter(c)
              /\ presence'[UserID[c]].exists /\ presence'[UserID[c]].IsOnline
              /\ Send'[c] = Send[c]
              /\ \A d \in Clients \ {c} : PresencePost(d, UserID[c], TRUE)
      ]_vars

\* three live sessions: two of one user, registered after the third, whose
\* mailbox holds one presence.update for each of the two registrations while
\* theirs hold none
C9_Witness ==
    \E a, b, d \in Clients :
       /\ a # b
       /\ Live(a) /\ Live(b) /\ Live(d)
       /\ UserID[a] = UserID[b] /\ UserID[d] # UserID[a]
       /\ CountType(Send[d], "presence.update") = 2
       /\ \A i \in 1..Len(Send[d]) :
             Send[d][i].payload.user_id = UserID[a] /\ Send[d][i].payload.is_online
       /\ Send[a] = <<>> /\ Send[b] = <<>>

\* nothing is enqueued on a closed mailbox
NeverAfterClose == \A d \in Clients : closed[d] => Len(Send'[d]) <= Len(Send[d])

\* C10 as claimed: the unregistration of a live session c removes it, closes
\* its mailbox, marks its user offline as of now and enqueues the offline
\* presence.update on the remaining live sessions; c's mailbox never grows
\* again.
C10_RemainingSessionsNotified ==
    [][ /\ \A c \in Clients :
             (HubUnregister(c) /\ Live(c))
             => /\ ~LiveAfter(c) /\ closed'[c]
                /\ presence'[UserID[c]] =
                      [exists |-> TRUE, IsOnline |-> FALSE, LastSeenAt |-> now]
                /\ \A d \in clients \ {c} :
                      Send'[d] = Append(Send[d], PresenceEvent(UserID[c], FALSE))
        /\ NeverAfterClose
      ]_vars

\* C10: the unregistration of a live session c removes it, closes its
\* mailbox, marks its user offline as of now and enqueues the offline
\* presence.update on every remaining live session that belongs to another
\* user and has room; a full one is dropped, the remaining sessions of c's
\* user get none; c's mailbox never grows again.
C10_Unregister ==
    [][ /\ \A c \in Clients :
             (HubUnregister(c) /\ Live(c))
             => /\ ~LiveAfter(c) /\ closed'[c]
                /\ Send'[c] = Send[c]
                /\ presence'[UserID[c]] =
                      [exists |-> TRUE, IsOnline |-> FALSE, LastSeenAt |-> now]
                /\ \A d \in Clients \ {c} : PresencePost(d, UserID[c], FALSE)
        /\ NeverAfterClose
      ]_vars

\* a session has been unregistered later than it registered; its user is
\* offline as of then, a session of another user holds the offline
\* presence.update and a remaining session of the same user holds none
C10_Witness ==
    \E c, s, d \in Clients :
       /\ rp[c] = "done" /\ closed[c] /\ ~Live(c)
       /\ presence[UserID[c]] = [exists |-> TRUE, IsOnline |-> FALSE, LastSeenAt |-> MaxTime]
       /\ now = MaxTime
       /\ s # c /\ Live(s) /\ UserID[s] = UserID[c]
       /\ CountType(Send[s], "presence.update") = 0
       /\ Live(d) /\ UserID[d] # UserID[c]
       /\ Holds(d, PresenceEvent(UserID[c], FALSE))

LoopExited(c) == rp[c] \in {"unregister", "done"} \/ wp[c] = "done"

\* the read loop's deferred function has sent its request to the hub
Requested(c) == rp[c] \in {"unregister", "done"}

\* a deferred Conn.Close has run: the write pump's on its return, the read
\* pump's once the hub has taken the request
ConnClosed(c) == wp[c] = "done" \/ rp[c] = "done"

OthersKept(d, userID) ==
    /\ rp'[d] = rp[d] /\ wp'[d] = wp[d]
    /\ UserID'[d] = UserID[d]
    /\ \A u \in Users \ {userID} : presence'[u] = presence[u]

C15_ResolutionSymmetric ==
    [][ \A a, b \in Users :
           CreateConversation(a, b)
           => /\ ret'.err = Resolution(b, a).err
              /\ ret'.id = Resolution(b, a).conversation.ID
              /\ Cardinality(ConversationsOf(conversations', a, b)) <= 1
      ]_vars

\* C16: GetOrCreateConversation(A, B) returns the pair's conversation when
\* one exists, whatever the blocks; when none exists and a block exists in
\* either direction it fails with "user is blocked" and writes nothing;
\* otherwise it creates and returns exactly one row.
C16_LookupBeforeBlocks ==
    [][ \A a, b \in Users :
           CreateConversation(a, b)
           => LET found == ConversationsOf(conversations, a, b)
              IN  IF found # {}
                  THEN /\ ret'.err = "nil"
                       /\ \E cv \in found : ret'.id = cv.ID
                       /\ conversations' = conversations
                  ELSE IF BlockBetween(a, b)
                  THEN /\ ret'.err = "user is blocked"
                       /\ conversations' = conversations
                  ELSE /\ ret'.err = "nil"
                       /\ \E cv \in conversations' \ conversations :
                             /\ conversations' = conversations \cup {cv}
                             /\ {cv.UserAID, cv.UserBID} = {a, b}
                             /\ ret'.id = cv.ID
      ]_vars

\* what the handshake is claimed to accept
Accepted(token) ==
    /\ token.form = "jwt"
    /\ token.key = SecretKey
    /\ ~token.expired
    /\ token.user_id.kind = "number"

\* the connection of c is closed and nothing else has changed
Rejected(c) ==
    /\ rp'[c] = "rejected"
    /\ \A d \in Clients \ {c} : rp'[d] = rp[d]
    /\ UNCHANGED <<dbVars, hubVars, UserID, wp>>

\* a closed connection never gets a session, a session never changes its user
Bound ==
    /\ \A c \in Clients :
          rp[c] = "rejected"
          => rp'[c] = "rejected" /\ ~LiveAfter(c) /\ wp'[c] = "none" /\ UserID'[c] = 0
    /\ \A c \in Clients : UserID[c] # 0 => UserID'[c] = UserID[c]
    /\ \A c \in Clients : LiveAfter(c) => UserID'[c] # 0

\* C17 as claimed: a handshake whose token is missing or fails validation
\* closes the connection and changes nothing else; one whose token is valid
\* creates the session with UserID equal to the token's user_id, and no
\* session ever changes its UserID.
C17_BoundToTokenUserID ==
    [][ /\ \A c \in Clients, token \in Tokens :
             Handshake(c, token)
             => IF Accepted(token)
                THEN /\ rp'[c] = "registering"
                     /\ 2 * UserID'[c] = token.user_id.halves
                ELSE Rejected(c)
        /\ Bound
      ]_vars

\* C17: a handshake whose token is missing or fails validation closes the
\* connection and changes nothing else; one whose token is valid creates the
\* session with UserID equal to the integer part of the token's user_id, and
\* no session ever changes its UserID.
C17_Handshake ==
    [][ /\ \A c \in Clients, token \in Tokens :
             Handshake(c, token)
             => IF Accepted(token)
                THEN /\ rp'[c] = "registering"
                     /\ UserID'[c] = token.user_id.halves \div 2
                     /\ \A d \in Clients \ {c} : UserID'[d] = UserID[d] /\ rp'[d] = rp[d]
                     /\ UNCHANGED <<dbVars, hubVars, wp>>
                ELSE Rejected(c)
        /\ Bound
      ]_vars

\* the first connection was closed at the handshake and has no session; the
\* second is live for its user with both pumps running; the third was live
\* for the same user and has been unregistered, still bound to that user
C17_Witness ==
    \E c, d, e \in Clients :
       /\ rp[c] = "rejected" /\ UserID[c] = 0 /\ wp[c] = "none" /\ ~Live(c) /\ ~closed[c]
       /\ Live(d) /\ rp[d] = "run" /\ wp[d] = "run" /\ UserID[d] \in Users
       /\ e # d /\ rp[e] = "done" /\ ~Live(e) /\ UserID[e] = UserID[d]
       /\ presence[UserID[d]].exists

\* C18: a typing.start or typing.stop frame of session c for a conversation
\* writes no row and is enqueued, with its type and {user_id, conversation_id},
\* exactly once on every live session of the conversation's participants
\* other than c's user, and on no other session.
C18_TypingRelay ==
    [][ \A c \in Clients, type \in EventTypes, cv \in ConversationIDs :
           handleTyping(c, type, cv)
           => /\ UNCHANGED dbVars
              /\ \A d \in Clients :
                    Send'[d] = IF d \in TypingTargets(c, cv)
                               THEN Append(Send[d],
                                           [type |-> type,
                                            payload |-> [user_id |-> UserID[c],
                                                         conversation_id |-> cv]])
                               ELSE Send[d]
      ]_vars

\* C19: a message.send frame between two users with a Block row in either
\* direction is absorbed: no Conversation or Message row is written, no
\* last-message pointer moves, nothing is enqueued on any mailbox, and the
\* sender's session stays as it is with its read loop running.
C19_BlockedSendAbsorbed ==
    [][ \A c \in Clients, to \in Users, text \in Texts, tempID \in TempIDs :
           (handleSendMessage(c, to, text, tempID) /\ BlockBetween(UserID[c], to))
           => /\ UNCHANGED <<conversations, messages, seq>>
              /\ \A d \in Clients : Untouched(d)
              /\ rp'[c] = "run"
      ]_vars

KnownTypes == {"message.send", "message.read", "typing.start", "typing.stop", "ping"}

\* the payload is no JSON object, or the type is none of the five
Malformed(message) == ~message.object \/ message.type \notin KnownTypes

\* nothing persisted and no mailbox has changed, every session is where it
\* was, and the read loop of c is ready for its next frame
DroppedSilently(c) ==
    /\ UNCHANGED <<dbVars, hubVars, pumpVars>>
    /\ rp'[c] = "run" /\ hs'[c] = Idle

\* C20 as claimed: a frame whose payload is no JSON object, or whose type is
\* none of the five, changes nothing persisted, enqueues nothing and leaves
\* the session live with its read loop going on.
C20_MalformedFrameDropped ==
    [][ \A c \in Clients, message \in {m \in Frames : Malformed(m)} :
           handleMessage(c, message) => DroppedSilently(c)
      ]_vars

\* C20: a frame of a type other than ping whose payload is no JSON object,
\* or whose type is none of the five, changes nothing persisted, enqueues
\* nothing and leaves the session live with its read loop going on; a ping
\* is answered with a pong to the sessions of its user whatever its payload.
C20_FrameDropped ==
    [][ /\ \A c \in Clients, message \in {m \in Frames : Malformed(m) /\ m.type # "ping"} :
             handleMessage(c, message) => DroppedSilently(c)
        /\ \A c \in Clients, message \in {m \in Frames : m.type = "ping"} :
             handleMessage(c, message)
             => /\ UNCHANGED <<dbVars, pumpVars>>
                /\ FanOutPost({d \in clients : UserID[d] = UserID[c]},
                              [type |-> "pong", payload |-> [timestamp |-> now]])
      ]_vars

\* a frame has just been dropped by a live session that holds a message, a
\* conversation and events in its mailbox, and it reads on
C20_Witness ==
    \E c \in Clients :
       /\ ret = [op |-> "handleMessage", err |-> ""]
       /\ Live(c) /\ rp[c] = "run" /\ hs[c] = Idle /\ ~closed[c]
       /\ Send[c] # <<>>
       /\ messages # {} /\ conversations # {}
       /\ \A d \in Clients \ {c} : rp[d] # "run"

\* C21: a storage error while a message.send is handled (block lookup,
\* conversation lookup or creation, message insert) ends the handling of that
\* frame only: no Message row was or is written for it, nothing was or is
\* enqueued for it, and the session stays where it is with both pumps
\* running and its read loop ready for the next frame.
C21_StorageErrorAbortsFrame ==
    [][ \A c \in Clients :
           /\ StorageError(c)
              => /\ UNCHANGED <<messages, sent, hubVars, pumpVars>>
                 /\ hs[c].msg = NoMessage
                 /\ hs'[c] = Idle
           /\ (SendLookup(c) \/ SendCreate(c))
              => /\ UNCHANGED <<messages, sent, hubVars, pumpVars>>
                 /\ hs'[c].msg = NoMessage
      ]_vars

\* the insert of the first message failed after its conversation had been
\* created: the conversation has no message, no mailbox holds a message event,
\* and the session is live and idle with its read loop running
C21_Witness ==
    \E c \in Clients :
       /\ ret = Returned("handleSendMessage", "storage error")
       /\ Live(c) /\ rp[c] = "run" /\ wp[c] = "run" /\ hs[c] = Idle
       /\ conversations # {} /\ messages = {}
       /\ \A cv \in conversations : cv.UserAID = UserID[c] /\ cv.LastMessageID = 0
       /\ \A d \in Clients : CountType(Send[d], "message.deliver") = 0

\* C22: a goroutine that is about to close a mailbox and delete its client
\* from Hub.clients is the only goroutine inside a critical section of
\* Hub.mutex: nobody else iterates over the map or deletes from it.
C22_LiveSetGuarded ==
    \A g \in Goroutines :
       mutex.fan[g].pc \in {"close", "delete"} => mutex.readers = {g}

\* C25: no goroutine sends on a mailbox that has been closed, and none
\* closes a mailbox a second time, whatever the interleaving of the hub loop
\* with the fan-outs of the read loops.
C25_MailboxClosedOnce ==
    [][ /\ \A g \in Goroutines, d \in Clients : FanOutSelect(g, d) => ~closed[d]
        /\ \A g \in Goroutines : FanOutClose(g) => ~closed[mutex.fan[g].cur]
        /\ HubLocked => \/ mutex.hub.isOnline
                        \/ mutex.hub.client \notin clients
                        \/ ~closed[mutex.hub.client]
      ]_vars

\* a goroutine is blocked sending on h.register or on h.unregister
Pending(c) == rp[c] \in {"registering", "unregister"}

\* C30: under fair scheduling every goroutine blocked on the register or the
\* unregister channel is eventually received by Hub.Run, in every
\* interleaving with the fan-outs of the read loops.
C30_RequestsAccepted ==
    \A c \in Clients : Pending(c) ~> ~Pending(c)

\* no read loop is between the statements of a message.send
NoSendInProgress == \A c \in Clients : hs[c].pc = "idle"

MessagesOf(cv) == {m \in messages : m.ConversationID = cv.ID}

\* C23: whenever no send is in progress, every conversation's last message
\* is the most recently persisted message of the conversation (the one with
\* the greatest id), and none if the conversation has no message, also after
\* concurrent sends into one conversation.
C23_LastMessageIsLatest ==
    NoSendInProgress
    => \A cv \in conversations :
          IF MessagesOf(cv) = {}
          THEN cv.LastMessageID = 0
          ELSE /\ cv.LastMessageID \in {m.ID : m \in MessagesOf(cv)}
               /\ \A m \in MessagesOf(cv) : m.ID <= cv.LastMessageID

\* the hub has no register or unregister request pending or in progress
HubQuiescent == \A c \in Clients : rp[c] \notin {"registering", "unregister"}

LiveSessionsOf(u) == {c \in clients : UserID[c] = u}

\* C24: whenever the hub has no register or unregister request pending or
\* in progress, a user's persisted presence is online if and only if at
\* least one session of that user is in the live set.
C24_PresenceReflectsSessions ==
    HubQuiescent
    => \A u \in Users : presence[u].IsOnline <=> LiveSessionsOf(u) # {}

ConversationOf(m) == {cv \in conversations : cv.ID = m.ConversationID}

\* C26: for every persisted message, the set of its sender and recipient
\* equals the set of the two participants of the conversation it refers to.
C26_MessageBelongsToPair ==
    \A m \in messages :
        \A cv \in ConversationOf(m) :
            {m.FromUserID, m.ToUserID} = {cv.UserAID, cv.UserBID}

ParticipantsOf(conversationID) ==
    UNION {{cv.UserAID, cv.UserBID} : cv \in {x \in conversations : x.ID = conversationID}}

C29_LastMessageExists ==
    \A cv \in conversations :
        cv.LastMessageID # 0
        => \E m \in messages : m.ID = cv.LastMessageID /\ m.ConversationID = cv.ID

====
